---- MODULE Spec2Model ----
(***************************************************************************)
(* Model of the incremental text streaming writer of azure-speech-sdk-rs:  *)
(* src/synthesizer/text_stream.rs (TextStream, Utf8Chunker) and the        *)
(* message constructors of src/synthesizer/utils.rs it uses.               *)
(*                                                                         *)
(* Bytes are naturals 0..255.  Offsets are 0-based as in the source, TLA+  *)
(* sequences are 1-based, so the source's data[i] is data[i + 1] here.     *)
(***************************************************************************)
EXTENDS Naturals, Sequences, FiniteSets, TLC

\* ------------------------------------------------------------------ bounds

\* Longest short byte sequence fed to the chunker harness.
MaxLen == 5
\* Largest small limit fed to the chunker harness.
MaxLimit == 5
\* Calls (write or finish) made on the session, over all its handles.
MaxCalls == 3

\* --------------------------------------------------------------- constants

\* text_stream.rs:4
MAX_TEXT_FRAME_BYTES == 4096

\* ------------------------------------------------------------ byte strings

\* 'a', and the bytes of U+00DF (C3 9F), U+27DF (E2 9F 9F), U+1F7DF (F0 9F 9F 9F).
ByteAlphabet == {97, 195, 226, 240, 159}

\* n copies of the ASCII letter 'a'.
Ascii(n) == [i \in 1..n |-> 97]

\* U+00DF, two bytes.
SharpS == <<195, 159>>

\* All sequences over S of length at most n.
SeqUpTo(S, n) == UNION {[1..k -> S] : k \in 0..n}

RECURSIVE Concat(_)
\* The concatenation of a sequence of byte sequences.
Concat(ss) == IF ss = <<>> THEN <<>> ELSE Head(ss) \o Concat(Tail(ss))

\* ------------------------------------------------------------- UTF-8 (std)

\* (b & 0b1100_0000) == 0b1000_0000
IsContinuation(b) == (b \div 64) % 4 = 2

\* Encoded length announced by a lead byte, 0 for a byte that cannot lead.
LeadWidth(b) ==
    IF b < 128 THEN 1
    ELSE IF b >= 194 /\ b <= 223 THEN 2
    ELSE IF b >= 224 /\ b <= 239 THEN 3
    ELSE IF b >= 240 /\ b <= 244 THEN 4
    ELSE 0

\* The range the second byte of a code point must lie in, given its lead
\* (no overlong forms, no surrogates, nothing above U+10FFFF).
SecondOk(lead, b) ==
    IF lead = 224 THEN b >= 160 /\ b <= 191
    ELSE IF lead = 237 THEN b >= 128 /\ b <= 159
    ELSE IF lead = 240 THEN b >= 144 /\ b <= 191
    ELSE IF lead = 244 THEN b >= 128 /\ b <= 143
    ELSE IsContinuation(b)

\* A whole code point starts at 1-based position i of s.
CodePointAt(s, i) ==
    LET w == LeadWidth(s[i]) IN
    /\ w > 0
    /\ i + w - 1 <= Len(s)
    /\ \A k \in 1..(w - 1) :
          /\ IsContinuation(s[i + k])
          /\ (k = 1 => SecondOk(s[i], s[i + 1]))

\* Every byte of s is below 0x80.
IsAscii(s) == s \in Seq(0..127)

\* std::str::from_utf8(s).is_ok(): s is a sequence of whole code points.
\* Every non-continuation byte starts a whole code point, and every
\* continuation byte belongs to the code point of the nearest lead before it.
FromUtf8Ok(s) ==
    \/ IsAscii(s)
    \/ \A i \in 1..Len(s) :
        IF IsContinuation(s[i])
        THEN \E k \in 1..3 :
                /\ i - k >= 1
                /\ ~IsContinuation(s[i - k])
                /\ \A j \in 1..(k - 1) : IsContinuation(s[i - j])
                /\ LeadWidth(s[i - k]) > k
                /\ CodePointAt(s, i - k)
        ELSE CodePointAt(s, i)

\* ------------------------------------------------------------- Utf8Chunker

\* Utf8Chunker::new
Utf8ChunkerNew(d, l) == [data |-> d, limit |-> l, offset |-> 0]

\* Take without the .min(self.limit).
TakeUnbounded(c) == Len(c.data) - c.offset

\* remaining.len().min(self.limit)
Take(c) ==
    LET remaining == Len(c.data) - c.offset IN
    IF remaining < c.limit THEN remaining ELSE c.limit

RECURSIVE BackOff(_, _)
\* while end > self.offset && is_continuation(self.data[end - 1]) { end -= 1 }
BackOff(c, end) ==
    IF end > c.offset /\ IsContinuation(c.data[end])
    THEN BackOff(c, end - 1)
    ELSE end

\* The end offset without the fallback for a back-off that reaches the cursor.
ChunkEndNoFallback(c) == BackOff(c, c.offset + Take(c))

\* The end offset of the chunk Utf8Chunker::next yields (offset < len).
ChunkEnd(c) ==
    LET end == BackOff(c, c.offset + Take(c)) IN
    IF end = c.offset THEN c.offset + Take(c) ELSE end

\* The end test with > for >=.
ExhaustedStrict(c) == c.offset > Len(c.data)

\* Utf8Chunker::next returns None.
Exhausted(c) == c.offset >= Len(c.data)

\* The slice taken from the start of the data: &self.data[..end].
NextChunkFromStart(c) == SubSeq(c.data, 1, ChunkEnd(c))

\* The chunk Utf8Chunker::next yields: &self.data[self.offset..end].
NextChunk(c) == SubSeq(c.data, c.offset + 1, ChunkEnd(c))

\* next() without the assignment self.offset = end.
AdvanceStuck(c) == c

\* The chunker after Utf8Chunker::next yielded a chunk: self.offset = end.
Advance(c) == [c EXCEPT !.offset = ChunkEnd(c)]

\* ---------------------------------------------------------------- messages

None == [some |-> FALSE]
Some(x) == [some |-> TRUE, val |-> x]

\* connector::make_text_payload and Message::text: the ordered headers and the
\* optional body of one text frame.
make_text_payload(headers, body) == [headers |-> headers, body |-> body]

\* The value of header name in message m, None when m does not carry it.
get_header(m, name) ==
    IF \E i \in 1..Len(m.headers) : m.headers[i][1] = name
    THEN Some(m.headers[CHOOSE i \in 1..Len(m.headers) : m.headers[i][1] = name][2])
    ELSE None

\* A text message built with the headers of create_ssml_message.
create_text_message_as_ssml(request_id, text, now) ==
    make_text_payload(
        << <<"Content-Type", "application/ssml+xml">>,
           <<"X-Timestamp", now>>,
           <<"X-RequestId", request_id>>,
           <<"Path", "ssml">> >>,
        Some(text))

\* utils::create_text_message; now is SystemTime::now() in milliseconds.
create_text_message(request_id, text, now) ==
    make_text_payload(
        << <<"Content-Type", "text/plain; charset=utf-8">>,
           <<"X-Timestamp", now>>,
           <<"X-RequestId", request_id>>,
           <<"Path", "text">> >>,
        Some(text))

\* A turn.end message built without its X-RequestId header.
create_turn_end_message_no_id(request_id, now) ==
    make_text_payload(
        << <<"X-Timestamp", now>>,
           <<"Path", "turn.end">> >>,
        None)

\* utils::create_turn_end_message
create_turn_end_message(request_id, now) ==
    make_text_payload(
        << <<"X-Timestamp", now>>,
           <<"X-RequestId", request_id>>,
           <<"Path", "turn.end">> >>,
        None)

\* ----------------------------------------------- configuration and request

\* Language values and Language::as_str.
Languages == {"EnUs", "ItIt"}
language_as_str(l) == IF l = "EnUs" THEN "en-US" ELSE "it-IT"

\* Voice::as_str.
voice_as_str(v) ==
    CASE v = "EnUsJennyNeural" -> "en-US-JennyNeural"
      [] v = "EnUsGuyNeural" -> "en-US-GuyNeural"
      [] OTHER -> "it-IT-ElsaNeural"

\* Language::default_voice.
default_voice(l) == IF l = "EnUs" THEN "EnUsJennyNeural" ELSE "ItItElsaNeural"

\* AudioFormat::as_str of the configured format.
audio_format_as_str(f) == "audio-16khz-32kbitrate-mono-mp3"

\* The six metadata flags of Config.
MetadataFlags ==
    {"bookmark_enabled", "punctuation_boundary_enabled",
     "sentence_boundary_enabled", "session_end_enabled", "viseme_enabled",
     "word_boundary_enabled"}

\* The configurations messages are built from.
Configs ==
    [ device : {[system |-> "sdk", os |-> "linux"]},
      language : Languages,
      voice : {None, Some("EnUsGuyNeural")},
      flags : [MetadataFlags -> BOOLEAN],
      audio_format : {"Audio16Khz32KBitRateMonoMp3"},
      auto_detect_language : BOOLEAN ]

\* The fields of StreamingRequest.
RequestFields ==
    {"pitch", "rate", "volume", "style", "temperature", "prefer_locales",
     "custom_lexicon_url"}

\* StreamingRequest values: every field unset or set.
StreamingRequests ==
    [ pitch : {None, Some("+10%")},
      rate : {None, Some("fast")},
      volume : {None, Some("loud")},
      style : {None, Some("cheerful")},
      temperature : {None, Some("0.7")},
      prefer_locales : {None, Some("en-GB")},
      custom_lexicon_url : {None, Some("https://example.com/lexicon.xml")} ]

\* The JSON key each StreamingRequest field is written under.
WireName(f) ==
    CASE f = "prefer_locales" -> "preferLocales"
      [] f = "custom_lexicon_url" -> "customLexiconUrl"
      [] OTHER -> f

\* A request object that carries every field, null where it is unset.
RequestJsonWithNulls(req) ==
    [n \in {WireName(f) : f \in RequestFields} |->
        LET f == CHOOSE g \in RequestFields : WireName(g) = n IN
        IF req[f].some THEN req[f].val ELSE "null"]

\* req_json: json!({}) with one key per field that is Some. A JSON object is
\* a function from its keys to their values.
RequestJson(req) ==
    LET set == {f \in RequestFields : req[f].some} IN
    [n \in {WireName(f) : f \in set} |->
        req[CHOOSE f \in set : WireName(f) = n].val]

\* A language object that always carries the locale.
SynthesisLanguageAlwaysLocale(config) ==
    [autoDetection |-> config.auto_detect_language,
     locale |-> language_as_str(config.language)]

\* synthesis["language"]: autoDetection, and locale unless auto-detecting.
SynthesisLanguage(config) ==
    IF ~config.auto_detect_language
    THEN [autoDetection |-> config.auto_detect_language,
          locale |-> language_as_str(config.language)]
    ELSE [autoDetection |-> config.auto_detect_language]

\* config.voice.clone().unwrap_or(language.default_voice())
SynthesisVoice(config) ==
    IF config.voice.some THEN config.voice.val
    ELSE default_voice(config.language)

\* The synthesis object of the synthesis.context body.
SynthesisJson(config, request) ==
    LET synthesis ==
            [audio |->
                [metadataOptions |->
                    [bookmarkEnabled |-> config.flags["bookmark_enabled"],
                     punctuationBoundaryEnabled |->
                        config.flags["punctuation_boundary_enabled"],
                     sentenceBoundaryEnabled |->
                        config.flags["sentence_boundary_enabled"],
                     sessionEndEnabled |-> config.flags["session_end_enabled"],
                     visemeEnabled |-> config.flags["viseme_enabled"],
                     wordBoundaryEnabled |->
                        config.flags["word_boundary_enabled"]],
                 outputFormat |-> audio_format_as_str(config.audio_format)],
             language |-> SynthesisLanguage(config),
             voice |-> [name |-> voice_as_str(SynthesisVoice(config))]]
    IN IF request.some
       THEN ("request" :> RequestJson(request.val)) @@ synthesis
       ELSE synthesis

\* A speech.config message with the header order of synthesis.context.
create_speech_config_message_reordered(request_id, config, now) ==
    make_text_payload(
        << <<"Content-Type", "application/json">>,
           <<"X-Timestamp", now>>,
           <<"X-RequestId", request_id>>,
           <<"Path", "speech.config">> >>,
        Some([context |->
                [system |-> config.device.system, os |-> config.device.os]]))

\* utils::create_speech_config_message
create_speech_config_message(request_id, config, now) ==
    make_text_payload(
        << <<"X-RequestId", request_id>>,
           <<"Path", "speech.config">>,
           <<"Content-Type", "application/json">>,
           <<"X-Timestamp", now>> >>,
        Some([context |->
                [system |-> config.device.system, os |-> config.device.os]]))

\* utils::create_synthesis_context_message
create_synthesis_context_message(request_id, config, request, now) ==
    make_text_payload(
        << <<"Content-Type", "application/json">>,
           <<"X-Timestamp", now>>,
           <<"X-RequestId", request_id>>,
           <<"Path", "synthesis.context">> >>,
        Some([synthesis |-> SynthesisJson(config, request)]))

\* An ssml message built without its Content-Type header.
create_ssml_message_untyped(request_id, ssml, now) ==
    make_text_payload(
        << <<"X-Timestamp", now>>,
           <<"X-RequestId", request_id>>,
           <<"Path", "ssml">> >>,
        Some(ssml))

\* utils::create_ssml_message
create_ssml_message(request_id, ssml, now) ==
    make_text_payload(
        << <<"Content-Type", "application/ssml+xml">>,
           <<"X-Timestamp", now>>,
           <<"X-RequestId", request_id>>,
           <<"Path", "ssml">> >>,
        Some(ssml))

\* connector::Client::send on an open transport: the transport takes the
\* whole message, after those it took before.
client_send(sent, m) == Append(sent, m)

\* ------------------------------------------------------------------- state

\* The two handles of the streaming example: the writer and its clone.
Writers == {"writer", "writer_clone"}

\* The request id the session was created with.
SessionRequestId == "req-1"

\* Texts handed to write: empty, short ASCII ("hi"), one 2-byte character,
\* and ASCII of exactly and of one more than the frame budget.
Texts ==
    { <<>>, <<104, 105>>, SharpS,
      Ascii(MAX_TEXT_FRAME_BYTES), Ascii(MAX_TEXT_FRAME_BYTES + 1) }

VARIABLES
    it,         \* harness: the Utf8Chunker under iteration
    yielded,    \* harness: the chunks next() has returned so far, in order
    finished,   \* harness: next() has returned None
    built,      \* harness: the message a constructor of utils.rs has built,
                \* with the arguments it was built from
    wire,       \* the messages the transport accepted, in order
    origin,     \* history: for each message on the wire, the handle, the call
                \* and the chunker offset it was sent from
    closed,     \* the transport handle is closed: every send fails
    request_id, \* TextStream.request_id of each handle
    pc,         \* each handle's task: "idle", or "sending" inside write
    chunker,    \* the Utf8Chunker of each handle's current (or last) write
    calls,      \* the calls each handle has made
    op,         \* each handle's current (or last) call
    result,     \* what each handle's last call returned
    afterFinish \* history: the current (or last) call was made after a
                \* finish() had returned Ok

harnessVars == <<it, yielded, finished, built>>
sessionVars == <<wire, origin, closed, request_id, pc, chunker, calls, op,
                 result, afterFinish>>
vars == <<it, yielded, finished, built, wire, origin, closed, request_id, pc, chunker,
          calls, op, result, afterFinish>>

\* No message built in the harness.
NothingBuilt == built = [kind |-> "none"]

\* ----------------------------------------------------------------- session

\* TextStream::new for the writer, #[derive(Clone)] for its clone; no call yet.
SessionIdle ==
    /\ wire = <<>>
    /\ origin = <<>>
    /\ closed = FALSE
    /\ request_id = [w \in Writers |-> SessionRequestId]
    /\ pc = [w \in Writers |-> "idle"]
    /\ chunker = [w \in Writers |-> Utf8ChunkerNew(<<>>, MAX_TEXT_FRAME_BYTES)]
    /\ calls = [w \in Writers |-> 0]
    /\ op = [w \in Writers |-> "none"]
    /\ result = [w \in Writers |-> "none"]
    /\ afterFinish = [w \in Writers |-> FALSE]

\* The calls made on the session so far, over all handles.
RECURSIVE TotalCalls(_)
TotalCalls(ws) ==
    IF ws = {} THEN 0
    ELSE LET w == CHOOSE x \in ws : TRUE IN calls[w] + TotalCalls(ws \ {w})

\* No chunker under iteration in the harness.
HarnessIdle ==
    /\ it = Utf8ChunkerNew(<<>>, MAX_TEXT_FRAME_BYTES)
    /\ yielded = <<>>
    /\ finished = TRUE
    /\ NothingBuilt

Init == SessionIdle /\ HarnessIdle

\* SystemTime::now() in milliseconds, abstracted to a logical clock: the number
\* of messages the transport has taken so far.
SystemTimeNow == Len(wire)

\* A turn.end message is on the wire.
TurnEndSent ==
    \E i \in 1..Len(wire) : get_header(wire[i], "Path") = Some("turn.end")

\* Where write stands once the chunker c is asked for its next chunk:
\* exhausted (the loop ends, Ok), a chunk from_utf8 rejects (InternalError),
\* or a chunk to send.
LoopResult(c) ==
    IF Exhausted(c) THEN "Ok"
    ELSE IF ~FromUtf8Ok(NextChunk(c)) THEN "InternalError"
    ELSE "pending"

\* write(text) is called on handle w: the loop runs up to its first send.
WriteCall(w, t) ==
    LET c == Utf8ChunkerNew(t, MAX_TEXT_FRAME_BYTES)
        r == LoopResult(c)
    IN
    /\ pc[w] = "idle"
    /\ TotalCalls(Writers) < MaxCalls
    /\ calls' = [calls EXCEPT ![w] = @ + 1]
    /\ op' = [op EXCEPT ![w] = "write"]
    /\ afterFinish' = [afterFinish EXCEPT ![w] = TurnEndSent]
    /\ chunker' = [chunker EXCEPT ![w] = c]
    /\ result' = [result EXCEPT ![w] = r]
    /\ pc' = [pc EXCEPT ![w] = IF r = "pending" THEN "sending" ELSE "idle"]
    /\ UNCHANGED <<wire, origin, closed, request_id>>
    /\ UNCHANGED harnessVars

\* The send of the current chunk of w's write completes, and the loop runs up
\* to its next send or to its return.
WriteSend(w) ==
    LET c == Advance(chunker[w])
        r == LoopResult(c)
    IN
    /\ pc[w] = "sending"
    /\ IF closed
       THEN /\ result' = [result EXCEPT ![w] = "TransportError"]
            /\ pc' = [pc EXCEPT ![w] = "idle"]
            /\ UNCHANGED <<wire, origin, chunker>>
       ELSE /\ wire' = client_send(wire,
                    create_text_message(request_id[w], NextChunk(chunker[w]),
                                        SystemTimeNow))
            /\ origin' = Append(origin,
                    [w |-> w, call |-> calls[w], offset |-> chunker[w].offset])
            /\ chunker' = [chunker EXCEPT ![w] = c]
            /\ result' = [result EXCEPT ![w] = r]
            /\ pc' = [pc EXCEPT ![w] = IF r = "pending" THEN "sending" ELSE "idle"]
    /\ UNCHANGED <<closed, request_id, calls, op, afterFinish>>
    /\ UNCHANGED harnessVars

\* finish() is called on handle w and its send completes.
Finish(w) ==
    /\ pc[w] = "idle"
    /\ TotalCalls(Writers) < MaxCalls
    /\ calls' = [calls EXCEPT ![w] = @ + 1]
    /\ op' = [op EXCEPT ![w] = "finish"]
    /\ afterFinish' = [afterFinish EXCEPT ![w] = TurnEndSent]
    /\ IF closed
       THEN /\ result' = [result EXCEPT ![w] = "TransportError"]
            /\ UNCHANGED <<wire, origin>>
       ELSE /\ wire' = client_send(wire,
                    create_turn_end_message(request_id[w], SystemTimeNow))
            /\ origin' = Append(origin,
                    [w |-> w, call |-> calls[w] + 1, offset |-> 0])
            /\ result' = [result EXCEPT ![w] = "Ok"]
    /\ UNCHANGED <<closed, request_id, pc, chunker>>
    /\ UNCHANGED harnessVars

\* The transport handle is closed or dropped.
Close ==
    /\ ~closed
    /\ closed' = TRUE
    /\ UNCHANGED <<wire, origin, request_id, pc, chunker, calls, op, result,
                   afterFinish>>
    /\ UNCHANGED harnessVars

Next ==
    \/ \E w \in Writers, t \in Texts : WriteCall(w, t)
    \/ \E w \in Writers : WriteSend(w)
    \/ \E w \in Writers : Finish(w)
    \/ Close

Spec == Init /\ [][Next]_vars

\* ------------------------------------------------------- chunker iteration

\* Inputs of the harness: every short byte string with every small limit, and
\* texts around the frame budget with the limit write uses.
ChunkerInputs ==
    (SeqUpTo(ByteAlphabet, MaxLen) \X (1..MaxLimit))
    \cup ({Ascii(MAX_TEXT_FRAME_BYTES), Ascii(MAX_TEXT_FRAME_BYTES + 1)}
            \X {MAX_TEXT_FRAME_BYTES})

InitChunker ==
    /\ \E in \in ChunkerInputs : it = Utf8ChunkerNew(in[1], in[2])
    /\ yielded = <<>>
    /\ finished = FALSE
    /\ NothingBuilt
    /\ SessionIdle

\* One call of next() that yields Some(chunk).
IterYield ==
    /\ ~finished
    /\ ~Exhausted(it)
    /\ yielded' = Append(yielded, NextChunk(it))
    /\ it' = Advance(it)
    /\ UNCHANGED <<finished, built>>
    /\ UNCHANGED sessionVars

\* One call of next() that returns None.
IterNone ==
    /\ ~finished
    /\ Exhausted(it)
    /\ finished' = TRUE
    /\ UNCHANGED <<it, yielded, built>>
    /\ UNCHANGED sessionVars

NextChunker == IterYield \/ IterNone

SpecChunker == InitChunker /\ [][NextChunker]_vars

\* A for loop keeps calling next() until it returns None.
SpecChunkerFair == SpecChunker /\ WF_vars(NextChunker)

\* ---------------------------------------------------- message construction

\* Request ids messages are built with.
RequestIds == {"req-1", "req-2"}

\* Bodies handed to create_ssml_message.
SsmlTexts == {"<speak>Hello</speak>", "<speak/>"}

\* Chunks handed to create_text_message.
TextChunks == {<<104, 105>>, SharpS}

\* create_speech_config_message is called.
BuildSpeechConfig ==
    /\ NothingBuilt
    /\ \E id \in RequestIds, config \in Configs :
          built' = [kind |-> "speech.config", id |-> id, config |-> config,
                    msg |-> create_speech_config_message(id, config,
                                                         SystemTimeNow)]
    /\ UNCHANGED <<it, yielded, finished>>
    /\ UNCHANGED sessionVars

\* create_synthesis_context_message is called, with or without a request.
BuildSynthesisContext ==
    /\ NothingBuilt
    /\ \E id \in RequestIds, config \in Configs,
          request \in {None} \cup {Some(r) : r \in StreamingRequests} :
          built' = [kind |-> "synthesis.context", id |-> id,
                    config |-> config, request |-> request,
                    msg |-> create_synthesis_context_message(id, config,
                                request, SystemTimeNow)]
    /\ UNCHANGED <<it, yielded, finished>>
    /\ UNCHANGED sessionVars

\* create_ssml_message is called.
BuildSsml ==
    /\ NothingBuilt
    /\ \E id \in RequestIds, ssml \in SsmlTexts :
          built' = [kind |-> "ssml", id |-> id, text |-> ssml,
                    msg |-> create_ssml_message(id, ssml, SystemTimeNow)]
    /\ UNCHANGED <<it, yielded, finished>>
    /\ UNCHANGED sessionVars

\* create_text_message is called.
BuildText ==
    /\ NothingBuilt
    /\ \E id \in RequestIds, text \in TextChunks :
          built' = [kind |-> "text", id |-> id, text |-> text,
                    msg |-> create_text_message(id, text, SystemTimeNow)]
    /\ UNCHANGED <<it, yielded, finished>>
    /\ UNCHANGED sessionVars

\* create_turn_end_message is called.
BuildTurnEnd ==
    /\ NothingBuilt
    /\ \E id \in RequestIds :
          built' = [kind |-> "turn.end", id |-> id,
                    msg |-> create_turn_end_message(id, SystemTimeNow)]
    /\ UNCHANGED <<it, yielded, finished>>
    /\ UNCHANGED sessionVars

NextMessages ==
    \/ BuildSpeechConfig
    \/ BuildSynthesisContext
    \/ BuildSsml
    \/ BuildText
    \/ BuildTurnEnd

SpecMessages == Init /\ [][NextMessages]_vars

\* ------------------------------------------------------ claims: the chunker

\* C1: for valid UTF-8 data and a limit of at least 4, every chunk yielded is
\* itself valid UTF-8 (no chunk boundary inside a code point).
C1_ChunksValidUtf8 ==
    (FromUtf8Ok(it.data) /\ it.limit >= 4)
        => \A i \in 1..Len(yielded) : FromUtf8Ok(yielded[i])

\* C4: for every byte sequence and every limit >= 1 the chunks yielded so far
\* concatenate to the bytes before the cursor, and to the whole input once
\* next() has returned None.
C4_ConcatReproduces ==
    /\ Concat(yielded) = SubSeq(it.data, 1, it.offset)
    /\ finished => Concat(yielded) = it.data

\* C4's case: a multi-chunk input, some chunk cut back at a continuation
\* run, iterated to the end.
C4_Witness ==
    /\ finished
    /\ Len(yielded) >= 3
    /\ \E i \in 1..Len(yielded) : Len(yielded[i]) < it.limit /\ i < Len(yielded)

\* C8: every chunk yielded has length at most the limit (which is 4096 for
\* the chunker write builds).
C8_ChunkWithinLimit ==
    \A i \in 1..Len(yielded) : Len(yielded[i]) <= it.limit

\* C8's case: an input longer than write's limit yields a chunk of exactly
\* 4096 bytes.
C8_Witness ==
    /\ it.limit = MAX_TEXT_FRAME_BYTES
    /\ Len(it.data) > it.limit
    /\ Len(yielded) >= 1
    /\ Len(yielded[1]) = MAX_TEXT_FRAME_BYTES

\* A 4-byte code point starts at the cursor and the limit is below 4.
FourByteAtCursor ==
    /\ it.limit < 4
    /\ ~Exhausted(it)
    /\ LeadWidth(it.data[it.offset + 1]) = 4
    /\ CodePointAt(it.data, it.offset + 1)

\* Backing off from the candidate end reaches the cursor: the fallback runs.
UsesFallback(c) == BackOff(c, c.offset + Take(c)) = c.offset

\* C9: with a limit below 4 and a 4-byte code point at the cursor the chunker
\* terminates with output that reconstructs the input, and the code point is
\* emitted through the fallback as a limit-sized slice.
C9_SmallLimitFallback ==
    /\ FourByteAtCursor ~> (finished /\ Concat(yielded) = it.data)
    /\ [][(FourByteAtCursor /\ IterYield)
            => (UsesFallback(it) /\ Len(yielded'[Len(yielded')]) = it.limit)]_vars

\* The part of C9 the code keeps: termination with a faithful output.
C9_TerminatesAndReconstructs ==
    FourByteAtCursor ~> (finished /\ Concat(yielded) = it.data)


\* The candidate end of the next chunk: cursor + min(limit, remaining).
CandidateEnd(c) == c.offset + Take(c)

\* C18: on valid UTF-8, when the candidate end is the end of the input, or
\* the byte at that index is no continuation byte, next() yields the whole
\* candidate; so a valid input of 1..limit bytes is yielded as one chunk.
C18_ShortenOnlyInsideCodePoint ==
    [][(/\ IterYield
        /\ FromUtf8Ok(it.data)
        /\ \/ CandidateEnd(it) = Len(it.data)
           \/ ~IsContinuation(it.data[CandidateEnd(it) + 1]))
        => yielded' = Append(yielded,
                SubSeq(it.data, it.offset + 1, CandidateEnd(it)))]_vars

\* C20: every next() that yields a chunk yields a non-empty one and moves the
\* cursor forward, never past the end of the input; so there are at most as
\* many chunks as input bytes.
C20_ProgressEachChunk ==
    [][IterYield
        => /\ yielded'[Len(yielded')] # <<>>
           /\ it'.offset > it.offset
           /\ it'.offset <= Len(it.data)
           /\ Len(yielded') <= Len(it.data)]_vars

\* C20's case: the iteration has ended after a chunk that the fallback
\* produced (a run of continuation bytes at the cursor).
C20_Witness ==
    /\ finished
    /\ Len(yielded) >= 2
    /\ \E i \in 1..Len(yielded) :
          \A k \in 1..Len(yielded[i]) : IsContinuation(yielded[i][k])

\* ------------------------------------------------------ claims: the session

\* The messages on the wire paired with where they came from.
Sent == [i \in 1..Len(wire) |-> [m |-> wire[i], o |-> origin[i]]]

\* The messages call k of handle w has put on the wire, in wire order.
FramesOf(w, k) ==
    SelectSeq(Sent, LAMBDA x : x.o.w = w /\ x.o.call = k)

\* The bodies of the messages call k of handle w has put on the wire.
BodiesOf(w, k) ==
    LET fs == FramesOf(w, k) IN [i \in 1..Len(fs) |-> fs[i].m.body.val]


\* C2: the messages of one call are contiguous on the wire: nothing of
\* another write or finish lies between two chunks of one fragment.
C2_FragmentsContiguous ==
    \A i, j \in 1..Len(wire) :
        (i < j /\ origin[i].w = origin[j].w /\ origin[i].call = origin[j].call)
            => \A k \in i..j :
                  origin[k].w = origin[i].w /\ origin[k].call = origin[i].call

\* C3: a write called after finish() returned Ok sends no frame and returns a
\* protocol-misuse error.
C3_WriteAfterFinishFails ==
    \A w \in Writers :
        (op[w] = "write" /\ afterFinish[w])
            => /\ FramesOf(w, calls[w]) = <<>>
               /\ pc[w] = "idle" => result[w] = "ProtocolMisuse"

\* C5: a write of valid UTF-8 text never returns the internal (encoding)
\* error, and when it returns Ok the bodies it sent concatenate to the text.
C5_ValidTextNeverInternalError ==
    \A w \in Writers :
        (op[w] = "write" /\ FromUtf8Ok(chunker[w].data))
            => /\ result[w] # "InternalError"
               /\ result[w] = "Ok"
                    => Concat(BodiesOf(w, calls[w])) = chunker[w].data

\* A write call of handle w returns in this step.
WriteReturns(w) ==
    /\ op'[w] = "write"
    /\ pc'[w] = "idle"
    /\ pc[w] = "sending" \/ calls'[w] # calls[w]

\* C6: once the transport is closed no frame is sent and every write call
\* that returns, for any text, returns an error.
C6_ClosedWritesFail ==
    [][closed => /\ wire' = wire
                 /\ \A w \in Writers : WriteReturns(w) => result'[w] # "Ok"]_vars

\* C7: the messages of one handle are on the wire in issue order: those of
\* an earlier call before those of a later call, and within one write the
\* chunks by increasing offset, whatever the other handle sends in between.
C7_HandleOrder ==
    \A i, j \in 1..Len(wire) :
        (i < j /\ origin[i].w = origin[j].w)
            => \/ origin[i].call < origin[j].call
               \/ /\ origin[i].call = origin[j].call
                  /\ origin[i].offset < origin[j].offset

\* C7's case: a handle has sent both chunks of a write and then a message of
\* a later call, with a message of the other handle between its own.
C7_Witness ==
    \E i, j, k, l \in 1..Len(wire) :
        /\ i < j /\ j < k /\ i < l /\ l < k
        /\ origin[i].w = origin[j].w /\ origin[j].w = origin[k].w
        /\ origin[i].call = origin[j].call
        /\ origin[j].call < origin[k].call
        /\ origin[l].w # origin[i].w

\* C10: a returned write of non-empty ASCII text of at most 4096 bytes has
\* either sent exactly one message, with Path text and the text as its body,
\* and returned Ok, or (the transport closed) sent nothing and failed.
C10_ShortAsciiOneMessage ==
    \A w \in Writers :
        LET t == chunker[w].data
            fs == FramesOf(w, calls[w])
        IN (/\ op[w] = "write" /\ pc[w] = "idle"
            /\ Len(t) >= 1 /\ Len(t) <= MAX_TEXT_FRAME_BYTES /\ IsAscii(t))
            => \/ /\ result[w] = "Ok"
                  /\ Len(fs) = 1
                  /\ get_header(fs[1].m, "Path") = Some("text")
                  /\ fs[1].m.body = Some(t)
               \/ /\ result[w] = "TransportError"
                  /\ fs = <<>>

\* C10's case: a write of exactly 4096 ASCII bytes has returned Ok.
C10_Witness ==
    \E w \in Writers :
        /\ op[w] = "write" /\ pc[w] = "idle" /\ result[w] = "Ok"
        /\ chunker[w].data = Ascii(MAX_TEXT_FRAME_BYTES)
        /\ Len(FramesOf(w, calls[w])) = 1

\* C11: an empty input yields no chunk: the first next() of write("")
\* returns None, so the call returns Ok at once and sends no message.
C11_EmptyWriteSendsNothing ==
    \A w \in Writers :
        (op[w] = "write" /\ chunker[w].data = <<>>)
            => /\ pc[w] = "idle"
               /\ result[w] = "Ok"
               /\ \A i \in 1..Len(origin) :
                     ~(origin[i].w = w /\ origin[i].call = calls[w])

\* C11's case: write("") has returned on a session that carries messages of
\* other calls.
C11_Witness ==
    \E w \in Writers :
        /\ op[w] = "write" /\ chunker[w].data = <<>> /\ pc[w] = "idle"
        /\ calls[w] >= 2
        /\ Len(wire) >= 1

\* C12: a write whose send failed has returned that failure, and what it put
\* on the wire is the text before the chunk that failed, chunk by chunk in
\* order: nothing after it, nothing twice.
C12_FailedSendStopsWrite ==
    \A w \in Writers :
        (op[w] = "write" /\ result[w] = "TransportError")
            => LET fs == FramesOf(w, calls[w]) IN
               /\ pc[w] = "idle"
               /\ chunker[w].offset < Len(chunker[w].data)
               /\ Concat(BodiesOf(w, calls[w]))
                    = SubSeq(chunker[w].data, 1, chunker[w].offset)
               /\ \A i \in 1..Len(fs) :
                     /\ fs[i].o.offset < chunker[w].offset
                     /\ i > 1 => fs[i - 1].o.offset < fs[i].o.offset

\* C12's case: the first chunk of a two-chunk write was sent and the send of
\* the second failed.
C12_Witness ==
    \E w \in Writers :
        /\ op[w] = "write" /\ result[w] = "TransportError"
        /\ Len(FramesOf(w, calls[w])) = 1
        /\ chunker[w].offset = MAX_TEXT_FRAME_BYTES

\* C13: every message on the wire carries the request id the session was
\* created with, and every handle still holds that request id.
C13_RequestIdEverywhere ==
    /\ \A i \in 1..Len(wire) :
          get_header(wire[i], "X-RequestId") = Some(SessionRequestId)
    /\ \A w \in Writers : request_id[w] = SessionRequestId

\* C13's case: the wire carries a text message of one handle and the
\* turn.end message of the other.
C13_Witness ==
    \E i, j \in 1..Len(wire) :
        /\ origin[i].w # origin[j].w
        /\ get_header(wire[i], "Path") = Some("text")
        /\ get_header(wire[j], "Path") = Some("turn.end")

\* C19: at most one turn.end message is ever on the wire, and it is the last
\* message on it.
C19_OneTurnEndLast ==
    \A i \in 1..Len(wire) :
        get_header(wire[i], "Path") = Some("turn.end") => i = Len(wire)

\* ----------------------------------------------------- claims: the messages

\* The header names of message m, in wire order.
HeaderNames(m) == [i \in 1..Len(m.headers) |-> m.headers[i][1]]

\* C14: speech.config carries its headers in the order X-RequestId, Path,
\* Content-Type, X-Timestamp, and synthesis.context in the order
\* Content-Type, X-Timestamp, X-RequestId, Path.
C14_HeaderOrder ==
    /\ built.kind = "speech.config"
        => HeaderNames(built.msg)
            = <<"X-RequestId", "Path", "Content-Type", "X-Timestamp">>
    /\ built.kind = "synthesis.context"
        => HeaderNames(built.msg)
            = <<"Content-Type", "X-Timestamp", "X-RequestId", "Path">>

\* C14's case: a speech.config message built for the second request id.
C14_Witness ==
    /\ built.kind = "speech.config"
    /\ built.id = "req-2"
    /\ built.config.auto_detect_language

\* The Content-Type each kind of message carries, None for turn.end.
ContentTypeOf(kind) ==
    CASE kind \in {"speech.config", "synthesis.context"}
            -> Some("application/json")
      [] kind = "ssml" -> Some("application/ssml+xml")
      [] kind = "text" -> Some("text/plain; charset=utf-8")
      [] OTHER -> None

\* C15: every message built carries the X-RequestId it was given, an
\* X-Timestamp and its own Path, and a Content-Type exactly when it has a
\* body: the one of its kind, with the given text as body for ssml and text,
\* and neither Content-Type nor body for turn.end.
C15_HeadersOfEachKind ==
    built.kind # "none"
        => /\ get_header(built.msg, "X-RequestId") = Some(built.id)
           /\ get_header(built.msg, "X-Timestamp").some
           /\ get_header(built.msg, "Path") = Some(built.kind)
           /\ get_header(built.msg, "Content-Type") = ContentTypeOf(built.kind)
           /\ get_header(built.msg, "Content-Type").some = built.msg.body.some
           /\ built.kind \in {"ssml", "text"}
                => built.msg.body = Some(built.text)
           /\ built.kind = "turn.end" => built.msg.body = None

\* C15's case: an ssml message has been built.
C15_Witness ==
    /\ built.kind = "ssml"
    /\ built.msg.body = Some("<speak>Hello</speak>")

\* C16: in the synthesis.context body language.locale is present, and is
\* the language's canonical string, exactly when auto-detection is off, and
\* voice.name is the configured voice or else the language's default voice.
C16_LocaleAndVoice ==
    built.kind = "synthesis.context"
        => LET synthesis == built.msg.body.val.synthesis
               config == built.config
           IN /\ ("locale" \in DOMAIN synthesis.language)
                    = ~config.auto_detect_language
              /\ ~config.auto_detect_language
                    => synthesis.language.locale
                        = language_as_str(config.language)
              /\ synthesis.language.autoDetection
                    = config.auto_detect_language
              /\ synthesis.voice.name
                    = IF config.voice.some
                      THEN voice_as_str(config.voice.val)
                      ELSE voice_as_str(default_voice(config.language))

\* C16's case: the scenario of the specification: auto-detection off, en-US,
\* no voice configured.
C16_Witness ==
    /\ built.kind = "synthesis.context"
    /\ ~built.config.auto_detect_language
    /\ built.config.language = "EnUs"
    /\ ~built.config.voice.some
    /\ built.msg.body.val.synthesis.language.locale = "en-US"
    /\ built.msg.body.val.synthesis.voice.name = "en-US-JennyNeural"

\* C17: the synthesis.context body has a request object exactly when an
\* override is supplied, and its keys are the wire names of the fields the
\* caller set, each with the value set.
C17_RequestKeys ==
    built.kind = "synthesis.context"
        => LET synthesis == built.msg.body.val.synthesis
               request == built.request
           IN /\ ("request" \in DOMAIN synthesis) = request.some
              /\ request.some
                    => /\ DOMAIN synthesis.request
                            = {WireName(f) : f \in
                                {g \in RequestFields : request.val[g].some}}
                       /\ \A f \in RequestFields :
                             request.val[f].some
                                => synthesis.request[WireName(f)]
                                    = request.val[f].val

\* C17's case: the scenario of the specification: an override with only
\* temperature set.
C17_Witness ==
    /\ built.kind = "synthesis.context"
    /\ built.request.some
    /\ {f \in RequestFields : built.request.val[f].some} = {"temperature"}
    /\ DOMAIN built.msg.body.val.synthesis.request = {"temperature"}

====
